---- MODULE Spec2Model ----
(***************************************************************************)
(* A model of src/main.py, the Streamlit finance dashboard: the category   *)
(* store (st.session_state.categories and categories.json), the CSV        *)
(* loader, the keyword classifier and the three user handlers (upload,     *)
(* Add Category, Apply Changes).  Every user event triggers one run of the *)
(* whole script, so every action below is one script run (two when         *)
(* st.rerun() is called).                                                   *)
(*                                                                         *)
(* Text that the code lower-cases or strips (details, keywords, amounts)   *)
(* is a sequence of one-character strings.  Category names are only ever   *)
(* compared for equality and tested for emptiness, so they are atomic      *)
(* strings.                                                                *)
(***************************************************************************)
EXTENDS Integers, Sequences, FiniteSets, TLC

\* Largest number of data rows of an uploaded CSV file.
MaxRows == 2

-----------------------------------------------------------------------------
(* str.lower() and str.strip() on the characters the model uses.           *)

LowerChar(c) == IF c = "A" THEN "a" ELSE c

Lower(s) == [i \in DOMAIN s |-> LowerChar(s[i])]

RECURSIVE LStrip(_)
LStrip(s) == IF s # <<>> /\ Head(s) = " " THEN LStrip(Tail(s)) ELSE s

RECURSIVE RStrip(_)
RStrip(s) ==
  IF s # <<>> /\ s[Len(s)] = " " THEN RStrip(SubSeq(s, 1, Len(s) - 1)) ELSE s

Strip(s) == RStrip(LStrip(s))

\* x in list, for a Python list modelled as a sequence
InList(x, list) == \E i \in DOMAIN list : list[i] = x

-----------------------------------------------------------------------------
(* The category store: an insertion-ordered dict, category name -> list of *)
(* keywords, modelled as a sequence of entries.                            *)

Entry(n, kws) == [name |-> n, keywords |-> kws]

\* st.session_state.categories = {"Uncategorized": []}
DefaultStore == << Entry("Uncategorized", <<>>) >>

\* list(categories.keys())
Keys(store) == [i \in DOMAIN store |-> store[i].name]

\* name in categories
HasKey(store, n) == \E i \in DOMAIN store : store[i].name = n

IndexOf(store, n) == CHOOSE i \in DOMAIN store : store[i].name = n

\* categories[name]
Get(store, n) == store[IndexOf(store, n)].keywords

\* categories[name] = kws : a new key goes last, an existing key keeps its place
Put(store, n, kws) ==
  IF HasKey(store, n)
  THEN [store EXCEPT ![IndexOf(store, n)] = Entry(n, kws)]
  ELSE Append(store, Entry(n, kws))

-----------------------------------------------------------------------------
(* json.dump / json.load of the store.  The file content is a sequence of  *)
(* JSON tokens; member names and array elements are string tokens.         *)

LBrace == [t |-> "{"]
RBrace == [t |-> "}"]
LBrack == [t |-> "["]
RBrack == [t |-> "]"]
Colon  == [t |-> ":"]
Comma  == [t |-> ","]
KeyTok(n) == [t |-> "key", v |-> n]
StrTok(s) == [t |-> "str", v |-> s]

RECURSIVE DumpList(_)
DumpList(kws) ==
  IF kws = <<>> THEN <<>>
  ELSE IF Len(kws) = 1 THEN << StrTok(kws[1]) >>
  ELSE << StrTok(kws[1]), Comma >> \o DumpList(Tail(kws))

RECURSIVE DumpMembers(_)
DumpMembers(store) ==
  IF store = <<>> THEN <<>>
  ELSE LET m == << KeyTok(store[1].name), Colon, LBrack >>
                  \o DumpList(store[1].keywords) \o << RBrack >>
       IN IF Len(store) = 1 THEN m ELSE m \o << Comma >> \o DumpMembers(Tail(store))

\* json.dump(st.session_state.categories, f)
JsonDump(store) == << LBrace >> \o DumpMembers(store) \o << RBrace >>

Tok(toks, i) == IF i \in DOMAIN toks THEN toks[i] ELSE [t |-> "eof"]

ParseFail == [ok |-> FALSE, value |-> <<>>, next |-> 0]

\* the elements of an array, from position i, "[" already read
RECURSIVE ParseElements(_, _, _)
ParseElements(toks, i, acc) ==
  IF Tok(toks, i).t # "str" THEN ParseFail
  ELSE LET acc2 == Append(acc, toks[i].v)
       IN IF Tok(toks, i + 1).t = "]" THEN [ok |-> TRUE, value |-> acc2, next |-> i + 2]
          ELSE IF Tok(toks, i + 1).t = "," THEN ParseElements(toks, i + 2, acc2)
          ELSE ParseFail

ParseArray(toks, i) ==
  IF Tok(toks, i).t # "[" THEN ParseFail
  ELSE IF Tok(toks, i + 1).t = "]" THEN [ok |-> TRUE, value |-> <<>>, next |-> i + 2]
  ELSE ParseElements(toks, i + 1, <<>>)

\* the members of an object, from position i, "{" already read
RECURSIVE ParseMembers(_, _, _)

\* a member's array a is read: store the member, then "}" or "," and the rest
ParseMember(toks, i, acc, a) ==
  IF ~a.ok THEN ParseFail
  ELSE IF Tok(toks, a.next).t = "}"
  THEN [ok |-> TRUE, value |-> Put(acc, toks[i].v, a.value), next |-> a.next + 1]
  ELSE IF Tok(toks, a.next).t = ","
  THEN ParseMembers(toks, a.next + 1, Put(acc, toks[i].v, a.value))
  ELSE ParseFail

ParseMembers(toks, i, acc) ==
  IF Tok(toks, i).t # "key" \/ Tok(toks, i + 1).t # ":" THEN ParseFail
  ELSE ParseMember(toks, i, acc, ParseArray(toks, i + 2))

ParseObject(toks) ==
  IF Tok(toks, 1).t # "{" THEN ParseFail
  ELSE IF Tok(toks, 2).t = "}" THEN [ok |-> TRUE, value |-> <<>>, next |-> 3]
  ELSE ParseMembers(toks, 2, <<>>)

\* nothing may follow the closing brace
ParseEnd(r, toks) ==
  IF r.ok /\ r.next = Len(toks) + 1
  THEN [ok |-> TRUE, value |-> r.value]
  ELSE [ok |-> FALSE, value |-> <<>>]

\* json.load(f): ok = FALSE stands for the JSONDecodeError it raises
JsonLoad(toks) == ParseEnd(ParseObject(toks), toks)

\* categories.json : os.path.exists(category_file) and the text it holds
NoFile == [exists |-> FALSE, content |-> <<>>]
FileOf(toks) == [exists |-> TRUE, content |-> toks]

-----------------------------------------------------------------------------
(* The uploaded CSV file.  A data row holds the text of its four required  *)
(* columns; Debit/Credit is the literal "Debit" or "Credit"; a date text   *)
(* is its three blank-separated fields.                                    *)

RawRow(date, details, amount, dc) ==
  [Date |-> date, Details |-> details, Amount |-> amount, DC |-> dc]

Digits == {"0", "1", "2", "3", "4", "5", "6", "7", "8", "9"}

DigitValue(c) ==
  CASE c = "0" -> 0 [] c = "1" -> 1 [] c = "2" -> 2 [] c = "3" -> 3 [] c = "4" -> 4
    [] c = "5" -> 5 [] c = "6" -> 6 [] c = "7" -> 7 [] c = "8" -> 8 [] c = "9" -> 9

\* a text that float() and the CSV reader's type inference accept as a number
IsNumber(s) == s # <<>> /\ \A i \in DOMAIN s : s[i] \in Digits

RECURSIVE ToFloat(_)
ToFloat(s) ==
  IF s = <<>> THEN 0
  ELSE 10 * ToFloat(SubSeq(s, 1, Len(s) - 1)) + DigitValue(s[Len(s)])

\* str.replace(",", "")
RECURSIVE RemoveCommas(_)
RemoveCommas(s) ==
  IF s = <<>> THEN <<>>
  ELSE IF Head(s) = "," THEN RemoveCommas(Tail(s))
  ELSE << Head(s) >> \o RemoveCommas(Tail(s))

\* pd.read_csv(file): a column whose every cell reads as a number gets a
\* numeric dtype and numeric cells; any other column keeps its cells as str
\* (dtype object).  A file without data rows has object columns.
read_csv(rows) ==
  LET numeric == rows # <<>> /\ \A i \in DOMAIN rows : IsNumber(rows[i].Amount)
  IN [amount_dtype |-> IF numeric THEN "float64" ELSE "object", rows |-> rows]

MonthNumber(m) ==
  CASE m = "Jan" -> 1 [] m = "Feb" -> 2 [] m = "Dec" -> 12 [] OTHER -> 0

DayNumber(d) == CASE d = "05" -> 5 [] d = "31" -> 31 [] OTHER -> 0

YearNumber(y) == CASE y = "2024" -> 2024 [] OTHER -> 0

NaT == [year |-> 0, month |-> 0, day |-> 0]

\* pd.to_datetime(text, format="%d %b %Y", errors='coerce')
to_datetime(text) ==
  IF Len(text) = 3 /\ DayNumber(text[1]) # 0 /\ MonthNumber(text[2]) # 0
     /\ YearNumber(text[3]) # 0
  THEN [year |-> YearNumber(text[3]), month |-> MonthNumber(text[2]),
        day |-> DayNumber(text[1])]
  ELSE NaT

-----------------------------------------------------------------------------
(* categorize_transaction and load_transactions                            *)

\* a bug: a row that already has a category keeps it (first match wins)
CategorizeRows_FirstMatch(df, category, lowered_keywords) ==
  [idx \in DOMAIN df |->
     IF /\ df[idx].Category = "Uncategorized"
        /\ InList(Strip(Lower(df[idx].Details)), lowered_keywords)
     THEN [df[idx] EXCEPT !.Category = category]
     ELSE df[idx]]

\* for idx, row in df.iterrows(): the rows matched by one category
CategorizeRows(df, category, lowered_keywords) ==
  [idx \in DOMAIN df |->
     IF InList(Strip(Lower(df[idx].Details)), lowered_keywords)
     THEN [df[idx] EXCEPT !.Category = category]
     ELSE df[idx]]

\* for category, keywords in st.session_state.categories.items(), from entry i
RECURSIVE CategorizeLoop(_, _, _)
CategorizeLoop(df, categories, i) ==
  IF i > Len(categories) THEN df
  ELSE LET category == categories[i].name
           keywords == categories[i].keywords
       IN IF category = "Uncategorized" \/ keywords = <<>>
          THEN CategorizeLoop(df, categories, i + 1)
          ELSE CategorizeLoop(
                 CategorizeRows(df, category,
                                [k \in DOMAIN keywords |-> Lower(keywords[k])]),
                 categories, i + 1)

categorize_transaction(df, categories) ==
  CategorizeLoop(
    [idx \in DOMAIN df |->
       [Date |-> df[idx].Date, Details |-> df[idx].Details,
        Amount |-> df[idx].Amount, DC |-> df[idx].DC,
        Category |-> "Uncategorized"]],
    categories, 1)

\* a bug: an amount that does not parse is coerced instead of raising
Converted_Coerce(rows, cleaned, categories) ==
  [ok |-> TRUE,
   df |-> categorize_transaction(
            [i \in DOMAIN rows |->
               [Date |-> to_datetime(rows[i].Date),
                Details |-> rows[i].Details,
                Amount |-> IF IsNumber(cleaned[i]) THEN ToFloat(cleaned[i]) ELSE 0,
                DC |-> rows[i].DC]],
            categories)]

\* df["Amount"].str.replace(",", "").astype(float) and the lines after it,
\* cleaned being the amounts without their commas
Converted(rows, cleaned, categories) ==
  IF \E i \in DOMAIN rows : ~IsNumber(cleaned[i])
  THEN [ok |-> FALSE, df |-> <<>>]             \* .astype(float) raises
  ELSE [ok |-> TRUE,
        df |-> categorize_transaction(
                 [i \in DOMAIN rows |->
                    [Date |-> to_datetime(rows[i].Date),
                     Details |-> rows[i].Details,
                     Amount |-> ToFloat(cleaned[i]),
                     DC |-> rows[i].DC]],
                 categories)]

\* load_transactions(file): ok = FALSE is the except branch, which calls
\* st.error once and returns None
load_transactions(rows, categories) ==
  IF read_csv(rows).amount_dtype # "object"
  THEN [ok |-> FALSE, df |-> <<>>]             \* .str on a numeric column raises
  ELSE Converted(rows, [i \in DOMAIN rows |-> RemoveCommas(rows[i].Amount)],
                 categories)

-----------------------------------------------------------------------------
(* The state: Streamlit's session state, the category file, the widgets,   *)
(* and what the latest script run produced.                                *)

VARIABLES
  has_categories,  \* "categories" in st.session_state
  categories,      \* st.session_state.categories
  file,            \* categories.json
  uploaded,        \* the value of st.file_uploader
  debits_df,       \* st.session_state.debits_df
  status,          \* "new" before the first run, then how the latest run ended
  shown,           \* what the latest run rendered: "none", "error" or "tabs"
  errors,          \* the number of st.error messages of the latest run
  df,              \* what load_transactions returned in the latest run
  snapshot,        \* the store the classifier read in the latest run
  calls            \* the store mutations the latest user event asked for

vars == << has_categories, categories, file, uploaded, debits_df, status,
           shown, errors, df, snapshot, calls >>

NoUpload == [present |-> FALSE, rows |-> <<>>]

\* save_categories(): the file it leaves behind
save_categories(cats) == FileOf(JsonDump(cats))

\* categories[category].append(kw); save_categories(); return True
AppendKeyword(cats2) ==
  [categories |-> cats2, file |-> save_categories(cats2), ret |-> TRUE]

\* a bug: the keyword is appended but save_categories() is not called
AddStripped_NoSave(cats, f, category, kw) ==
  IF kw # <<>> /\ ~InList(kw, Get(cats, category))
  THEN [categories |-> Put(cats, category, Append(Get(cats, category), kw)),
        file |-> f, ret |-> TRUE]
  ELSE [categories |-> cats, file |-> f, ret |-> FALSE]

\* a bug: the keyword is appended without the "not in" test
AddStripped_NoMembershipTest(cats, f, category, kw) ==
  IF kw # <<>>
  THEN AppendKeyword(Put(cats, category, Append(Get(cats, category), kw)))
  ELSE [categories |-> cats, file |-> f, ret |-> FALSE]

\* add_keyword_to_category, keyword already stripped
AddStripped(cats, f, category, kw) ==
  IF kw # <<>> /\ ~InList(kw, Get(cats, category))
  THEN AppendKeyword(Put(cats, category, Append(Get(cats, category), kw)))
  ELSE [categories |-> cats, file |-> f, ret |-> FALSE]

\* a bug: the keyword is stored as given, without strip()
add_keyword_to_category_NoStrip(cats, f, category, keyword) ==
  AddStripped(cats, f, category, keyword)

\* add_keyword_to_category(category, keyword)
add_keyword_to_category(cats, f, category, keyword) ==
  AddStripped(cats, f, category, Strip(keyword))

\* json.load(f) has returned or raised r
Loaded(r, base) ==
  IF r.ok THEN [crashed |-> FALSE, categories |-> r.value]
  ELSE [crashed |-> TRUE, categories |-> base]

\* the module-level load: the default store on a fresh session, then
\* json.load of the category file when it exists
ModuleLevel(has, cats, f) ==
  IF ~f.exists
  THEN [crashed |-> FALSE, categories |-> IF has THEN cats ELSE DefaultStore]
  ELSE Loaded(JsonLoad(f.content), IF has THEN cats ELSE DefaultStore)

\* df[df["Debit/Credit"] == dc], every row keeping its index in df
RECURSIVE FilterDC(_, _, _)
FilterDC(rows, dc, i) ==
  IF i > Len(rows) THEN <<>>
  ELSE IF rows[i].DC = dc
  THEN << [idx |-> i, Date |-> rows[i].Date, Details |-> rows[i].Details,
           Amount |-> rows[i].Amount, DC |-> rows[i].DC,
           Category |-> rows[i].Category] >> \o FilterDC(rows, dc, i + 1)
  ELSE FilterDC(rows, dc, i + 1)

\* what one run of the script leaves behind
Outcome(cats, f, debits, st, sh, err, d, snap, log, rr) ==
  [has_categories |-> TRUE, categories |-> cats, file |-> f,
   debits_df |-> debits, status |-> st, shown |-> sh, errors |-> err,
   df |-> d, snapshot |-> snap, calls |-> log, rerun |-> rr]

\* the log entry of an Add Category click
AddCategoryCall(new_category, cats, f, cats2, f2) ==
  [op |-> "add_category", name |-> new_category, pre |-> cats, post |-> cats2,
   file_pre |-> f, file_post |-> f2]

\* st.session_state.categories[new_category] = []; save_categories(); st.rerun()
AddCategoryInsert(cats, f, new_category, log, cats2) ==
  [categories |-> cats2, file |-> save_categories(cats2), rerun |-> TRUE,
   calls |-> Append(log, AddCategoryCall(new_category, cats, f, cats2,
                                         save_categories(cats2)))]

\* a bug: the name is inserted without the "not in" test
AddCategoryClick_NoExistsTest(cats, f, new_category, log) ==
  IF new_category # ""
  THEN AddCategoryInsert(cats, f, new_category, log, Put(cats, new_category, <<>>))
  ELSE [categories |-> cats, file |-> f, rerun |-> FALSE,
        calls |-> Append(log, AddCategoryCall(new_category, cats, f, cats, f))]

\* main: the Add Category button is pressed
AddCategoryClick(cats, f, new_category, log) ==
  IF new_category # "" /\ ~HasKey(cats, new_category)
  THEN AddCategoryInsert(cats, f, new_category, log, Put(cats, new_category, <<>>))
  ELSE [categories |-> cats, file |-> f, rerun |-> FALSE,
        calls |-> Append(log, AddCategoryCall(new_category, cats, f, cats, f))]

\* main: clean invalid categories before showing the editor
CleanInvalid(debits, valid_categories) ==
  [i \in DOMAIN debits |->
     IF InList(debits[i].Category, valid_categories) THEN debits[i]
     ELSE [debits[i] EXCEPT !.Category = "Uncategorized"]]

\* st.data_editor: the table with the user's category choices applied; the
\* dropdown offers valid_categories only
data_editor(debits, valid_categories, edits) ==
  [i \in DOMAIN debits |->
     IF InList(edits[i], valid_categories)
     THEN [debits[i] EXCEPT !.Category = edits[i]]
     ELSE debits[i]]

\* one row of the Apply Changes loop whose category was changed:
\* r is what add_keyword_to_category(new_category, details) did
ApplyRow(st, i, new_category, details, r) ==
  [categories |-> r.categories, file |-> r.file,
   debits_df |-> [st.debits_df EXCEPT ![i].Category = new_category],
   calls |-> Append(st.calls,
                    [op |-> "add_keyword", category |-> new_category,
                     keyword |-> details, ret |-> r.ret,
                     pre |-> st.categories, post |-> r.categories,
                     file_pre |-> st.file, file_post |-> r.file])]

\* main: the Apply Changes loop over edited_df, from row i
RECURSIVE ApplyLoop(_, _, _)
ApplyLoop(st, edited_df, i) ==
  IF i > Len(edited_df) THEN st
  ELSE IF edited_df[i].Category = st.debits_df[i].Category
  THEN ApplyLoop(st, edited_df, i + 1)
  ELSE ApplyLoop(
         ApplyRow(st, i, edited_df[i].Category, edited_df[i].Details,
                  add_keyword_to_category(st.categories, st.file,
                                          edited_df[i].Category,
                                          edited_df[i].Details)),
         edited_df, i + 1)

\* main: the Apply Changes loop has ended in st
Applied(st, d, snap) ==
  Outcome(st.categories, st.file, st.debits_df, "ok", "tabs", 0, d, snap,
          st.calls, FALSE)

\* main: the editor and the Apply Changes button, cleaned being
\* st.session_state.debits_df after the clean-up
Editor(cleaned, d, snap, cats, f, log, save_button, edits) ==
  IF save_button
  THEN Applied(ApplyLoop([categories |-> cats, file |-> f,
                          debits_df |-> cleaned, calls |-> log],
                         data_editor(cleaned, Keys(cats), edits), 1),
               d, snap)
  ELSE Outcome(cats, f, cleaned, "ok", "tabs", 0, d, snap, log, FALSE)

\* main after the Add Category click add
Added(add, d, debits, snap, save_button, edits) ==
  IF add.rerun
  THEN Outcome(add.categories, add.file, debits, "ok", "tabs", 0, d, snap,
               add.calls, TRUE)
  ELSE Editor(CleanInvalid(debits, Keys(add.categories)), d, snap,
              add.categories, add.file, add.calls, save_button, edits)

\* main once the file is loaded into d: the two tabs
Tabs(d, debits, cats, f, add_button, new_category, save_button, edits, log) ==
  IF add_button
  THEN Added(AddCategoryClick(cats, f, new_category, log), d, debits, cats,
             save_button, edits)
  ELSE Editor(CleanInvalid(debits, Keys(cats)), d, cats, cats, f, log,
              save_button, edits)

\* main: df = load_transactions(uploaded_file) has returned lt
Uploaded(lt, cats, s, add_button, new_category, save_button, edits, log) ==
  IF ~lt.ok
  THEN Outcome(cats, s.file, s.debits_df, "ok", "error", 1, <<>>, <<>>, log, FALSE)
  ELSE Tabs(lt.df, FilterDC(lt.df, "Debit", 1), cats, s.file, add_button,
            new_category, save_button, edits, log)

\* the script after its module-level load m
Script(m, s, up, add_button, new_category, save_button, edits, log) ==
  IF m.crashed
  THEN Outcome(m.categories, s.file, s.debits_df, "crashed", "none", 0,
               <<>>, <<>>, log, FALSE)
  ELSE IF ~up.present
  THEN Outcome(m.categories, s.file, s.debits_df, "ok", "none", 0,
               <<>>, <<>>, log, FALSE)
  ELSE Uploaded(load_transactions(up.rows, m.categories), m.categories, s,
                add_button, new_category, save_button, edits, log)

\* One run of the script, from the state s of the session and the disk and
\* the widget values; rerun says the run ended in st.rerun().
ScriptRun(s, up, add_button, new_category, save_button, edits, log) ==
  Script(ModuleLevel(s.has_categories, s.categories, s.file), s, up,
         add_button, new_category, save_button, edits, log)

\* after st.rerun() the script runs again with no button pressed
Follow(r, up, new_category, edits) ==
  IF r.rerun THEN ScriptRun(r, up, FALSE, new_category, FALSE, edits, r.calls)
  ELSE r

\* The whole handling of one user event: the run it triggers and the run
\* that follows st.rerun().
main(s, up, add_button, new_category, save_button, edits) ==
  Follow(ScriptRun(s, up, add_button, new_category, save_button, edits, <<>>),
         up, new_category, edits)

Session == [has_categories |-> has_categories, categories |-> categories,
            file |-> file, debits_df |-> debits_df]

Become(r, up) ==
  /\ has_categories' = r.has_categories
  /\ categories' = r.categories
  /\ file' = r.file
  /\ debits_df' = r.debits_df
  /\ status' = r.status
  /\ shown' = r.shown
  /\ errors' = r.errors
  /\ df' = r.df
  /\ snapshot' = r.snapshot
  /\ calls' = r.calls
  /\ uploaded' = up

-----------------------------------------------------------------------------
(* The inputs.                                                             *)

SeqsUpTo(S, n) == UNION { [1..k -> S] : k \in 0..n }

\* details cells: a merchant name in capitals behind a blank, and a blank cell
DetailTexts == { <<" ", "A">>, <<" ">> }

\* amount cells: with a thousands separator, without one, and not a number
AmountTexts == { <<"1", ",", "5">>, <<"5">>, <<"x">> }

DateTexts == { <<"05", "Jan", "2024">>, <<"not", "a", "date">> }

Directions == { "Debit", "Credit" }

\* the names typed into "New Category Name" and offered by the dropdown
CategoryNames == { "Uncategorized", "Food", "Rent" }

\* CSV files whose amounts carry a separator and whose dates parse: debit
\* rows with every details text, and a credit row
StatementRows ==
  { RawRow(<<"05", "Jan", "2024">>, d, <<"1", ",", "5">>, "Debit") :
      d \in DetailTexts }
  \cup { RawRow(<<"05", "Jan", "2024">>, <<" ", "A">>, <<"1", ",", "5">>, "Credit") }

StatementFiles == SeqsUpTo(StatementRows, MaxRows)

\* CSV files for the loader: debit rows with every kind of amount, and
\* credit rows with every kind of date
AnyRows ==
  { RawRow(<<"05", "Jan", "2024">>, <<" ", "A">>, a, "Debit") : a \in AmountTexts }
  \cup { RawRow(dt, <<" ", "A">>, <<"1", ",", "5">>, "Credit") : dt \in DateTexts }

AnyFiles == SeqsUpTo(AnyRows, MaxRows)

\* what categories.json may hold when the program starts: nothing, a
\* truncated text, a mapping, and a mapping without "Uncategorized"
InitialFiles ==
  { NoFile,
    FileOf(<< LBrace, KeyTok("Uncategorized"), Colon >>),
    FileOf(JsonDump(<< Entry("Uncategorized", <<>>), Entry("Food", << <<"a">> >>),
                       Entry("Rent", << <<"b">> >>) >>)),
    FileOf(JsonDump(<< Entry("Food", << <<"A">> >>) >>)) }

-----------------------------------------------------------------------------
(* The actions: one per user event.                                        *)

InitWith(f) ==
  /\ has_categories = FALSE
  /\ categories = <<>>
  /\ file = f
  /\ uploaded = NoUpload
  /\ debits_df = <<>>
  /\ status = "new"
  /\ shown = "none"
  /\ errors = 0
  /\ df = <<>>
  /\ snapshot = <<>>
  /\ calls = <<>>

Init == \E f \in InitialFiles : InitWith(f)

InitDefault == InitWith(NoFile)

\* the first run of the script in a new session
Startup ==
  /\ status = "new"
  /\ Become(main(Session, uploaded, FALSE, "", FALSE, <<>>), uploaded)

\* a run that no button triggered (a widget edit, a page reload)
Rerun ==
  /\ status # "new"
  /\ Become(main(Session, uploaded, FALSE, "", FALSE, <<>>), uploaded)

\* the user uploads a CSV file
Upload(rows) ==
  /\ status = "ok"
  /\ LET up == [present |-> TRUE, rows |-> rows]
     IN Become(main(Session, up, FALSE, "", FALSE, <<>>), up)

\* the user types a name and presses Add Category
AddCategory(new_category) ==
  /\ status = "ok" /\ shown = "tabs"
  /\ Become(main(Session, uploaded, TRUE, new_category, FALSE, <<>>), uploaded)

\* the user picks categories in the editor and presses Apply Changes
ApplyChanges(edits) ==
  /\ status = "ok" /\ shown = "tabs"
  /\ Become(main(Session, uploaded, FALSE, "", TRUE, edits), uploaded)

Events ==
  \/ Startup
  \/ Rerun
  \/ \E n \in CategoryNames \cup {""} : AddCategory(n)
  \/ \E e \in [1..Len(debits_df) -> CategoryNames] : ApplyChanges(e)

Next == Events \/ \E rows \in StatementFiles : Upload(rows)

NextLoad == Startup \/ Rerun \/ \E rows \in AnyFiles : Upload(rows)

Spec == Init /\ [][Next]_vars

\* the program started without a category file
SpecDefault == InitDefault /\ [][Next]_vars

\* the program fed with CSV files of every kind
SpecLoad == Init /\ [][NextLoad]_vars

-----------------------------------------------------------------------------
(* Helpers of the properties.                                              *)

Count(x, list) == Cardinality({ i \in DOMAIN list : list[i] = x })

NoDuplicates(store) ==
  \A j \in DOMAIN store : \A k \in DOMAIN store[j].keywords :
    Count(store[j].keywords[k], store[j].keywords) = 1

\* the entries, other than "Uncategorized", holding a keyword whose
\* lower-cased form is the trimmed, lower-cased details
MatchingEntries(store, details) ==
  { j \in DOMAIN store :
      /\ store[j].name # "Uncategorized"
      /\ \E k \in DOMAIN store[j].keywords :
           Lower(store[j].keywords[k]) = Lower(Strip(details)) }

Last(S) == CHOOSE j \in S : \A k \in S : k <= j

LastMatch(store, details) ==
  IF MatchingEntries(store, details) = {} THEN "Uncategorized"
  ELSE store[Last(MatchingEntries(store, details))].name

\* the store the next run of the script will work with
NextStore == ModuleLevel(has_categories, categories, file).categories

\* the category a row with these details gets from the classifier
Classify(store, details) ==
  categorize_transaction(
    << [Date |-> NaT, Details |-> details, Amount |-> 0, DC |-> "Debit"] >>,
    store)[1].Category

CorruptFile == file.exists /\ ~JsonLoad(file.content).ok

KeywordCalls == { i \in DOMAIN calls : calls[i].op = "add_keyword" }

\* a mutation request the code must turn down
Rejected(c) ==
  IF c.op = "add_category"
  THEN c.name = "" \/ HasKey(c.pre, c.name)
  ELSE Strip(c.keyword) = <<>> \/ InList(Strip(c.keyword), Get(c.pre, c.category))

BadAmount(rows) == \E i \in DOMAIN rows : ~IsNumber(RemoveCommas(rows[i].Amount))

-----------------------------------------------------------------------------
(* The properties.                                                         *)

\* C1: a category file that exists but cannot be parsed does not crash the
\* program: the store falls back to {Uncategorized: []} and the run goes on.
C1_CorruptFileFallsBack ==
  (status # "new" /\ CorruptFile) => (status = "ok" /\ categories = DefaultStore)

\* C2: once the store is loaded, from any persisted mapping and after any
\* add-category and add-keyword, "Uncategorized" is one of its keys.
C2_UncategorizedPresent ==
  status # "new" => HasKey(categories, "Uncategorized")

\* C3: after an event that mutated the store (a category added, a keyword
\* appended) the persisted mapping, read back, equals the in-memory mapping,
\* order of categories and of keywords included; so it does after every
\* single mutation.
C3_PersistedEqualsMemory ==
  /\ (\E i \in DOMAIN calls : calls[i].post # calls[i].pre)
       => (file.exists /\ JsonLoad(file.content) = [ok |-> TRUE, value |-> categories])
  /\ \A i \in DOMAIN calls :
       calls[i].post # calls[i].pre
         => /\ calls[i].file_post.exists
            /\ JsonLoad(calls[i].file_post.content)
                 = [ok |-> TRUE, value |-> calls[i].post]

C3_Witness ==
  \E i \in KeywordCalls :
    /\ calls[i].ret
    /\ Len(categories) >= 3
    /\ Len(Get(categories, calls[i].category)) >= 2

\* C4: whenever the tables are shown, every transaction row has a category
\* that is a key of the current store.
C4_RowsReferenceStore ==
  shown = "tabs" =>
    /\ \A i \in DOMAIN debits_df : HasKey(categories, debits_df[i].Category)
    /\ \A i \in DOMAIN df : HasKey(categories, df[i].Category)

\* C5: the classifier gives every row the last category in store order, other
\* than "Uncategorized", that has a keyword whose lower-cased form equals the
\* row's trimmed, lower-cased details, and "Uncategorized" when there is none.
C5_LastMatchWins ==
  shown = "tabs" =>
    \A i \in DOMAIN df : df[i].Category = LastMatch(snapshot, df[i].Details)

C5_Witness ==
  /\ shown = "tabs"
  /\ \E i \in DOMAIN df :
       /\ Cardinality(MatchingEntries(snapshot, df[i].Details)) >= 2
       /\ df[i].Category = snapshot[Len(snapshot)].name
       /\ df[i].Category # "Uncategorized"
  /\ \E i \in DOMAIN df : df[i].Category = "Uncategorized"

\* C6 as stated: add_keyword_to_category called twice with the same category
\* and keyword leaves exactly one occurrence of the trimmed keyword and the
\* second call returns false; and no keyword list holds a string twice.
C6_AddKeywordIdempotent ==
  /\ \A i, j \in KeywordCalls :
       (i < j /\ calls[i].category = calls[j].category
              /\ calls[i].keyword = calls[j].keyword)
         => /\ Count(Strip(calls[j].keyword), Get(categories, calls[j].category)) = 1
            /\ ~calls[j].ret
  /\ NoDuplicates(categories)

\* C6 amended: the same for a keyword that is not blank; a blank keyword is
\* never inserted, both calls return false; and no keyword list holds a
\* string twice.
C6_AddKeywordIdempotentNonBlank ==
  /\ \A i, j \in KeywordCalls :
       (i < j /\ calls[i].category = calls[j].category
              /\ calls[i].keyword = calls[j].keyword)
         => IF Strip(calls[j].keyword) # <<>>
            THEN /\ Count(Strip(calls[j].keyword),
                          Get(categories, calls[j].category)) = 1
                 /\ ~calls[j].ret
            ELSE /\ Count(<<>>, Get(categories, calls[j].category)) = 0
                 /\ ~calls[i].ret /\ ~calls[j].ret
  /\ NoDuplicates(categories)

C6_Witness ==
  \E i, j \in KeywordCalls :
    /\ i < j
    /\ calls[i].category = calls[j].category
    /\ calls[i].keyword = calls[j].keyword
    /\ Strip(calls[i].keyword) # <<>>
    /\ calls[i].ret /\ ~calls[j].ret

\* C7: a rejected mutation (a category name that is empty or exists, a
\* keyword that is blank or already in the list) changes neither the store
\* nor the file and raises nothing; an event whose every request is rejected
\* leaves both as they were.
C7_RejectedIsNoOp ==
  /\ \A i \in DOMAIN calls :
       Rejected(calls[i])
         => /\ calls[i].post = calls[i].pre
            /\ calls[i].file_post = calls[i].file_pre
            /\ (calls[i].op = "add_keyword" => ~calls[i].ret)
  /\ (calls # <<>> /\ \A i \in DOMAIN calls : Rejected(calls[i]))
       => /\ status = "ok"
          /\ categories = calls[1].pre
          /\ file = calls[1].file_pre

C7_Witness ==
  /\ calls # <<>>
  /\ calls[1].op = "add_keyword"
  /\ InList(Strip(calls[1].keyword), Get(calls[1].pre, calls[1].category))
  /\ categories = calls[1].pre

\* C8: a CSV file whose amounts are all numbers, with or without thousands
\* separators, loads: one row per data row, the amount being the text
\* without its separators, and a category on every row.
C8_ValidCsvLoads ==
  (status = "ok" /\ uploaded.present /\ ~BadAmount(uploaded.rows))
    => /\ shown = "tabs"
       /\ Len(df) = Len(uploaded.rows)
       /\ \A i \in DOMAIN df :
            /\ df[i].Amount = ToFloat(RemoveCommas(uploaded.rows[i].Amount))
            /\ df[i].Category \in CategoryNames

\* C9: a run that loads a file with an amount that does not parse reports one
\* error, returns no rows and shows no table, and leaves the store and the
\* category file as they were.
C9_BadAmountFailsUpload ==
  [][(status' = "ok" /\ uploaded'.present /\ BadAmount(uploaded'.rows))
       => /\ shown' = "error" /\ errors' = 1 /\ df' = <<>>
          /\ categories' = categories
          /\ file' = file]_vars

C9_Witness ==
  /\ shown = "error" /\ errors = 1
  /\ Len(uploaded.rows) = 2
  /\ IsNumber(RemoveCommas(uploaded.rows[1].Amount))
  /\ ~IsNumber(RemoveCommas(uploaded.rows[2].Amount))
  /\ HasKey(categories, "Food")

\* C10 as stated: after Apply Changes moved a row with details d to category
\* B, the next classification of a row with details d gives B.
C10_ApplyTeaches ==
  \A i \in KeywordCalls :
    Classify(NextStore, calls[i].keyword) = calls[i].category

\* C10 amended: after Apply Changes moved a row with non-blank details d to
\* category B, the trimmed d is a keyword of B in the store the next run
\* loads; the next classification of a row with details d gives B when B is
\* not "Uncategorized" and no category after B in store order has a keyword
\* matching d, and gives the last matching category otherwise.
C10_ApplyTeachesLastMatch ==
  \A i \in KeywordCalls :
    Strip(calls[i].keyword) # <<>> =>
      /\ InList(Strip(calls[i].keyword), Get(NextStore, calls[i].category))
      /\ (/\ calls[i].category # "Uncategorized"
          /\ \A j \in MatchingEntries(NextStore, calls[i].keyword) :
               j <= IndexOf(NextStore, calls[i].category))
           => Classify(NextStore, calls[i].keyword) = calls[i].category
      /\ Classify(NextStore, calls[i].keyword)
           = LastMatch(NextStore, calls[i].keyword)

C10_Witness ==
  \E i \in KeywordCalls :
    /\ calls[i].ret
    /\ calls[i].category # "Uncategorized"
    /\ Cardinality(MatchingEntries(NextStore, calls[i].keyword)) >= 2
    /\ Classify(NextStore, calls[i].keyword) = calls[i].category

====
